---- MODULE Spec2Model ----
(***************************************************************************)
(* Shared optimization of several wavefunctions (deeperwin):               *)
(*   process_molecules_shared.py : WaveFunctionData, get_index,            *)
(*                                 optimize_shared                         *)
(*   utils.py                    : replicate_across_devices,               *)
(*                                 get_params_filter_func, split_params,   *)
(*                                 merge_params                            *)
(* Python lists are modelled as functions over 0..len-1 so that indices    *)
(* are the indices of the source.                                          *)
(***************************************************************************)
EXTENDS Integers, Sequences, FiniteSets, TLC

VARIABLES
  method,       \* config.scheduling_method
  max_age,      \* config.max_age
  n_epochs,     \* opt_config.n_epochs (per-target budget)
  wfs,          \* the list of WaveFunctionData records
  n_epoch,      \* loop variable of the epoch loop / first argument of get_index
  index_next,   \* index returned by the last get_index call (-1: none yet)
  exc,          \* exception that ended the call/run ("none" while running)
  pc,           \* position of the running function
  shared_params,  \* optimize_shared: the shared parameter set
  params,       \* optimize_shared: local variable params (full parameter set)
  opt_state,    \* optimize_shared: optimizer state (number of steps taken)
  i,            \* optimize_shared: loop variable of the burn-in loop
  log,          \* the last log_step record: logger used, target logged, epoch
  chosen,       \* age and E_std the selected target had when get_index returned
  lead_is_dev,  \* leading dimension of an untiled leaf equals the device count
  arg,          \* arguments of the function under test (harness)
  ret           \* value returned by the function under test (harness)

cfgvars == <<method, max_age, n_epochs, lead_is_dev>>
runvars == <<shared_params, params, opt_state, i, log, chosen>>
callvars == <<arg, ret>>
vars == <<method, max_age, n_epochs, wfs, n_epoch, index_next, exc, pc,
          shared_params, params, opt_state, i, log, chosen, lead_is_dev,
          arg, ret>>

(***************************************************************************)
(* Bounds of the model                                                     *)
(***************************************************************************)
MaxWfs == 3          \* largest number of wavefunctions
MaxAge == 2          \* largest configured max_age
MaxStd == 2          \* E_std values are 1..MaxStd (and NaN)
ExtraRounds == 2     \* rounds of n_wfs epochs run after the warm-up
MaxPatterns == 2     \* longest list of shared-module patterns
MaxVal == 2          \* leaf values of the partitioner harness are 1..MaxVal
MaxLeaves == 2       \* most leaves of a replicated data tree
MaxElem == 1         \* array elements of replicated data are -MaxElem..MaxElem

(***************************************************************************)
(* Program constants                                                       *)
(***************************************************************************)
WarmupRounds == 10   \* get_index: n_epoch < len(wfs) * 10

\* Encodings of non-numeric values (modelled E_std and samples are >= 0).
NaN == -1            \* jnp.nanstd of a sample without finite entries
NoMetric == -2       \* current_metrics = {} : no 'E_std' key
Inf == -3            \* an infinite entry of the objective sample

Methods == {"round_robin", "stddev", "random"}
StdVals == (1..MaxStd) \cup {NaN}

NoExc == [type |-> "none", msg |-> <<>>]
\* raise ("Wavefunction scheduler currently not supported.") raises a str:
\* Python 3 answers with TypeError("exceptions must derive from BaseException")
RaiseStr == [type |-> "TypeError",
             msg |-> <<"exceptions", "must", "derive", "from", "BaseException">>]
\* wf.current_metrics['E_std'] on a dict without that key
KeyErrorEStd == [type |-> "KeyError", msg |-> <<"E_std">>]

Range(s) == {s[j] : j \in DOMAIN s}

(***************************************************************************)
(* WaveFunctionData: the fields the scheduler and the loop use.            *)
(* current_metrics is represented by its E_std entry, the only entry that  *)
(* is read (get_index); NoMetric stands for the initial empty dict.        *)
(***************************************************************************)
None == <<>>
WaveFunctionData == [unique_trainable_params |-> None,
                     mcmc_state |-> None,
                     clipping_params |-> None,
                     E_std |-> NoMetric,
                     n_opt_epochs |-> 0,
                     last_epoch_optimized |-> 0]

len(l) == Cardinality(DOMAIN l)

(***************************************************************************)
(* get_index                                                               *)
(***************************************************************************)
\* jnp.argmax / np.argmax on numbers: scan, keep the first largest element
RECURSIVE argmax_scan(_, _, _)
argmax_scan(a, j, best) ==
  IF j = len(a) THEN best
  ELSE argmax_scan(a, j + 1, IF a[j] > a[best] THEN j ELSE best)

\* the same scan keeping the last largest element
RECURSIVE argmax_last_scan(_, _, _)
argmax_last_scan(a, j, best) ==
  IF j = len(a) THEN best
  ELSE argmax_last_scan(a, j + 1, IF a[j] >= a[best] THEN j ELSE best)

RECURSIVE argmin_scan(_, _, _)
argmin_scan(a, j, best) ==
  IF j = len(a) THEN best
  ELSE argmin_scan(a, j + 1, IF a[j] < a[best] THEN j ELSE best)

jnp_argmin(a) == argmin_scan(a, 1, 0)

jnp_argmax(a) == argmax_scan(a, 1, 0)

np_argmax_last(a) ==
  IF \E j \in DOMAIN a : a[j] = NaN
  THEN CHOOSE j \in DOMAIN a : a[j] = NaN /\ \A h \in DOMAIN a : h < j => a[h] # NaN
  ELSE argmax_last_scan(a, 1, 0)

\* np.argmax propagates NaN: the first NaN is the maximum
np_argmax(a) ==
  IF \E j \in DOMAIN a : a[j] = NaN
  THEN CHOOSE j \in DOMAIN a : a[j] = NaN /\ \A h \in DOMAIN a : h < j => a[h] # NaN
  ELSE argmax_scan(a, 1, 0)

wf_ages_by_count(n, ws) == [j \in DOMAIN ws |-> n - ws[j].n_opt_epochs]

\* wf_ages = n_epoch - jnp.array([wf.last_epoch_optimized for wf in wfs])
wf_ages_of(n, ws) == [j \in DOMAIN ws |-> n - ws[j].last_epoch_optimized]

round_robin_shifted(n, ws) == (n + 1) % len(ws)

\* return n_epoch % len(wfs)
round_robin(n, ws) == n % len(ws)

in_warmup_unscaled(n, ws) == n < WarmupRounds

\* n_epoch < len(wfs) * 10
in_warmup(n, ws) == n < len(ws) * WarmupRounds

age_guard_off(wf_ages, age_limit) == FALSE

any_age_reached(wf_ages, age_limit) == \E j \in DOMAIN wf_ages : wf_ages[j] >= age_limit

\* jnp.any(wf_ages > config.max_age)
any_age_above(wf_ages, age_limit) == \E j \in DOMAIN wf_ages : wf_ages[j] > age_limit

\* result: [exc, index]; index = -1 when the call raised
get_index(n, ws, m, age_limit) ==
  IF m = "round_robin" THEN [exc |-> NoExc, index |-> round_robin(n, ws)]
  ELSE IF m = "stddev" THEN
    LET wf_ages == wf_ages_of(n, ws) IN
    IF in_warmup(n, ws) THEN [exc |-> NoExc, index |-> n % len(ws)]
    ELSE IF any_age_above(wf_ages, age_limit)
      THEN [exc |-> NoExc, index |-> jnp_argmax(wf_ages)]
    ELSE IF \E j \in DOMAIN ws : ws[j].E_std = NoMetric
      THEN [exc |-> KeyErrorEStd, index |-> -1]
    ELSE [exc |-> NoExc, index |-> np_argmax([j \in DOMAIN ws |-> ws[j].E_std])]
  ELSE [exc |-> RaiseStr, index |-> -1]

(***************************************************************************)
(* Harness for get_index as a function of arbitrary arguments              *)
(***************************************************************************)
\* epochs tried for k targets: first, last of the warm-up, first after it, later
EpochSamples(k) == {0, k * WarmupRounds - 1, k * WarmupRounds,
                    k * WarmupRounds + MaxAge + 1}

\* last_epoch_optimized: the default 0, or what gives an age of 1, of
\* age_limit or of age_limit + 1
LastEpochs(n, age_limit) ==
  {0} \cup {n - a : a \in {b \in {1, age_limit, age_limit + 1} : b <= n}}

InitIndex ==
  /\ method \in Methods
  /\ max_age \in 1..MaxAge
  /\ n_epochs = 0
  /\ \E k \in 1..MaxWfs :
       /\ n_epoch \in EpochSamples(k)
       /\ wfs \in [0..(k - 1) -> [unique_trainable_params : {None},
                                  mcmc_state : {None},
                                  clipping_params : {None},
                                  E_std : StdVals \cup {NoMetric},
                                  n_opt_epochs : {0},
                                  last_epoch_optimized : LastEpochs(n_epoch, max_age)]]
  /\ index_next = -1
  /\ exc = NoExc
  /\ pc = "call"
  /\ lead_is_dev = TRUE
  /\ shared_params = <<>> /\ params = <<>> /\ opt_state = 0 /\ i = 0
  /\ log = <<>> /\ chosen = <<>>
  /\ arg = <<>>
  /\ ret = <<>>

CallGetIndex ==
  /\ pc = "call"
  /\ LET r == get_index(n_epoch, wfs, method, max_age) IN
       /\ index_next' = r.index
       /\ exc' = r.exc
  /\ pc' = "returned"
  /\ UNCHANGED <<cfgvars, runvars, callvars, wfs, n_epoch>>

NextIndex == CallGetIndex

SpecIndex == InitIndex /\ [][NextIndex]_vars

(***************************************************************************)
(* Properties of get_index (checked under SpecIndex)                       *)
(***************************************************************************)
Returned == pc = "returned"
Ages == wf_ages_of(n_epoch, wfs)
AfterWarmup == n_epoch >= WarmupRounds * len(wfs)
\* t has the largest age, and is the lowest index among the oldest
OldestLowest(t) ==
  /\ \A j \in DOMAIN wfs : Ages[j] <= Ages[t]
  /\ \A j \in DOMAIN wfs : j < t => Ages[j] < Ages[t]
AllNumeric == \A j \in DOMAIN wfs : wfs[j].E_std \in 1..MaxStd
\* t has the largest E_std, and is the lowest index among those
NoisiestLowest(t) ==
  /\ \A j \in DOMAIN wfs : wfs[j].E_std <= wfs[t].E_std
  /\ \A j \in DOMAIN wfs : j < t => wfs[j].E_std < wfs[t].E_std

\* C1: with method round_robin, get_index returns n mod target_count for
\* every epoch and target list, whatever last_epoch_optimized and the
\* metrics of the targets are.
C1_RoundRobinIndex ==
  (Returned /\ method = "round_robin") =>
    (exc = NoExc /\ index_next = n_epoch % len(wfs))

\* a round_robin call past the first round, on targets whose ages differ and
\* one of which has no metric
C1_Witness ==
  /\ Returned /\ method = "round_robin"
  /\ len(wfs) = 3 /\ n_epoch = 3 * WarmupRounds + MaxAge + 1
  /\ wfs[0].E_std = NoMetric /\ wfs[1].E_std = NaN
  /\ wfs[0].last_epoch_optimized # wfs[2].last_epoch_optimized
  /\ index_next = n_epoch % 3

\* C3: during the warm-up (n < 10 * target_count) method stddev returns the
\* index round_robin returns, n mod target_count, whatever the ages, max_age
\* and metrics are, targets without an E_std metric included.
C3_WarmupEquivalence ==
  (Returned /\ method = "stddev" /\ n_epoch < WarmupRounds * len(wfs)) =>
    /\ exc = NoExc
    /\ index_next = n_epoch % len(wfs)
    /\ index_next = get_index(n_epoch, wfs, "round_robin", max_age).index

\* the last warm-up epoch of two targets, one too old, one without metric
C3_Witness ==
  /\ Returned /\ method = "stddev"
  /\ len(wfs) = 2 /\ n_epoch = 2 * WarmupRounds - 1
  /\ Ages[0] > max_age /\ wfs[0].E_std = NoMetric /\ wfs[1].E_std = MaxStd
  /\ index_next = 1

\* C4: with method stddev after the warm-up, if some age n -
\* last_epoch_optimized is strictly above max_age the oldest target is
\* returned, the lowest index among equally old ones; ages that only reach
\* max_age do not trigger the guard (the noisiest target is returned).
C4_StarvationGuard ==
  (Returned /\ method = "stddev" /\ AfterWarmup) =>
    /\ (\E j \in DOMAIN wfs : Ages[j] > max_age) =>
         (exc = NoExc /\ index_next \in DOMAIN wfs /\ OldestLowest(index_next))
    /\ ((\A j \in DOMAIN wfs : Ages[j] <= max_age) /\ AllNumeric) =>
         (exc = NoExc /\ index_next \in DOMAIN wfs /\ NoisiestLowest(index_next))

\* two equally oldest targets above max_age, neither the noisiest: the lower
\* index of the two is returned
C4_Witness ==
  /\ Returned /\ method = "stddev" /\ AfterWarmup /\ len(wfs) = 3
  /\ Ages[1] = max_age + 1 /\ Ages[2] = max_age + 1 /\ Ages[0] = max_age
  /\ wfs[0].E_std = 2 /\ wfs[1].E_std = 1 /\ wfs[2].E_std = 1
  /\ index_next = 1

\* C6: with method stddev after the warm-up and no age above max_age, the
\* target with the largest E_std is returned, the lowest index among targets
\* with exactly the same largest E_std.
C6_LargestStddev ==
  (/\ Returned /\ method = "stddev" /\ AfterWarmup
   /\ \A j \in DOMAIN wfs : Ages[j] <= max_age
   /\ AllNumeric) =>
    (exc = NoExc /\ index_next \in DOMAIN wfs /\ NoisiestLowest(index_next))

\* targets 1 and 2 tie on the largest E_std, target 0 is the oldest
C6_Witness ==
  /\ Returned /\ method = "stddev" /\ AfterWarmup /\ len(wfs) = 3
  /\ wfs[0].E_std = 1 /\ wfs[1].E_std = 2 /\ wfs[2].E_std = 2
  /\ Ages[0] = max_age /\ Ages[1] < max_age /\ Ages[2] < max_age
  /\ index_next = 1

\* C7: a scheduling method other than round_robin and stddev fails with a
\* configuration error whose message names the offending method, and no
\* target is selected.
C7_UnsupportedMethodNamed ==
  (Returned /\ method \notin {"round_robin", "stddev"}) =>
    (exc.type # "none" /\ method \in Range(exc.msg) /\ index_next = -1)

(***************************************************************************)
(* Harness for get_index in two runs side by side: wfs, index_next and exc *)
(* are those of the first run, arg.wfs and ret those of the second; method,*)
(* max_age and n_epoch are common to both.                                 *)
(***************************************************************************)
PairStd == {NoMetric, NaN, 1, MaxStd}
\* last_epoch_optimized: the default 0, or what gives an age of 1 or of
\* age_limit + 1
PairLast(n, age_limit) ==
  {0} \cup {n - a : a \in {b \in {1, age_limit + 1} : b <= n}}

\* the targets of the second run: those of the first, target 0 with `count`
\* finished epochs and its clipping state, target `flip` (if any) with
\* another E_std
second_run(ws, count, flip) ==
  [j \in DOMAIN ws |->
     [ws[j] EXCEPT
        !.n_opt_epochs = IF j = 0 THEN count ELSE @,
        !.clipping_params = IF j = 0 /\ count > 0 THEN <<"stepped">> ELSE @,
        !.E_std = IF j # flip THEN @ ELSE IF @ = MaxStd THEN 1 ELSE MaxStd]]

InitPair ==
  /\ method \in Methods
  /\ max_age \in 1..MaxAge
  /\ n_epochs = 0
  /\ \E k \in 1..MaxWfs :
       /\ n_epoch \in {0, k * WarmupRounds}
       /\ wfs \in [0..(k - 1) -> [unique_trainable_params : {None},
                                  mcmc_state : {None},
                                  clipping_params : {None},
                                  E_std : PairStd,
                                  n_opt_epochs : {0},
                                  last_epoch_optimized : PairLast(n_epoch, max_age)]]
       /\ \E count \in {0, 1} : \E flip \in -1..(k - 1) :
            arg = [wfs |-> second_run(wfs, count, flip)]
  /\ index_next = -1
  /\ exc = NoExc
  /\ pc = "call_pair"
  /\ lead_is_dev = TRUE
  /\ shared_params = <<>> /\ params = <<>> /\ opt_state = 0 /\ i = 0
  /\ log = <<>> /\ chosen = <<>>
  /\ ret = <<>>

\* index_next = get_index(n_epoch, wfs, ...) in each of the two runs
CallGetIndexPair ==
  /\ pc = "call_pair"
  /\ LET r == get_index(n_epoch, wfs, method, max_age) IN
       /\ index_next' = r.index
       /\ exc' = r.exc
  /\ ret' = get_index(n_epoch, arg.wfs, method, max_age)
  /\ pc' = "pair_returned"
  /\ UNCHANGED <<cfgvars, runvars, wfs, n_epoch, arg>>

NextPair == CallGetIndexPair

SpecPair == InitPair /\ [][NextPair]_vars

\* the two runs agree on what earlier epochs left for the scheduler
SameHistory ==
  \A j \in DOMAIN wfs :
    /\ wfs[j].last_epoch_optimized = arg.wfs[j].last_epoch_optimized
    /\ wfs[j].E_std = arg.wfs[j].E_std

\* C16: the decision of the scheduler is a function of method, max_age,
\* the epoch index n and the last_epoch_optimized and E_std of the targets
\* left by the epochs before n: two runs side by side that agree on these
\* select the same index at epoch n (or fail alike), whatever else differs.
C16_SameHistorySameIndex ==
  (pc = "pair_returned" /\ SameHistory) =>
    (index_next = ret.index /\ exc = ret.exc)

\* after the warm-up of two stddev runs of three targets that differ in the
\* epoch count and clipping state of target 0: both select target 1, the
\* noisiest
C16_Witness ==
  /\ pc = "pair_returned" /\ SameHistory /\ wfs # arg.wfs
  /\ method = "stddev" /\ len(wfs) = 3 /\ n_epoch = 3 * WarmupRounds
  /\ \A j \in DOMAIN wfs : n_epoch - wfs[j].last_epoch_optimized = 1
  /\ wfs[0].E_std = 1 /\ wfs[1].E_std = MaxStd /\ wfs[2].E_std = 1
  /\ index_next = 1 /\ ret.index = 1

\* two runs that differ in the E_std of a target and select differently
C16_WitnessDiverge ==
  /\ pc = "pair_returned" /\ ~SameHistory
  /\ exc = NoExc /\ ret.exc = NoExc /\ index_next # ret.index

(***************************************************************************)
(* Parameter trees (haiku params: module name -> leaf name -> array).      *)
(* A tree is the function from its (module name, leaf name) keys to the    *)
(* leaves, which is what hk.data_structures.traverse enumerates.  Names    *)
(* and patterns are strings, modelled as tuples of characters.             *)
(***************************************************************************)
Restrict(f, S) == [key \in S |-> f[key]]

\* f"{module_name}/{name}"
path_of(module_name, name) == module_name \o <<"/">> \o name

\* "(" + "|".join(module_names) + ")" : the alternatives of the group; the
\* join of an empty list is the empty string, one empty alternative
alternatives(module_names) ==
  IF Len(module_names) = 0 THEN {<<>>} ELSE Range(module_names)

\* one alternative matches the text at offset off ('.' matches any character)
match_at(pat, text, off) ==
  /\ off + Len(pat) <= Len(text)
  /\ \A j \in 1..Len(pat) : pat[j] = "." \/ pat[j] = text[off + j]

\* regex.findall(text) is non-empty: some alternative matches somewhere
findall_nonempty(module_names, text) ==
  \E pat \in alternatives(module_names) :
    \E off \in 0..Len(text) : match_at(pat, text, off)

\* get_params_filter_func(module_names)(module_name, name, v)
filter_func(module_names, module_name, name) ==
  findall_nonempty(module_names, path_of(module_name, name))

\* hk.data_structures.partition(predicate, structure): (matching, the rest)
partition(module_names, tree) ==
  LET hit == {key \in DOMAIN tree : filter_func(module_names, key[1], key[2])}
  IN <<Restrict(tree, hit), Restrict(tree, DOMAIN tree \ hit)>>

split_params(tree, module_names) == partition(module_names, tree)

\* dict-level merge {**params_old, **params_new}: a module of params_new
\* replaces the whole module of params_old
merge_params_shallow(params_old, params_new) ==
  LET new_modules == {key[1] : key \in DOMAIN params_new}
      kept == {key \in DOMAIN params_old : key[1] \notin new_modules}
  IN [key \in kept \cup DOMAIN params_new |->
        IF key \in DOMAIN params_new THEN params_new[key] ELSE params_old[key]]

\* merge that keeps the value of the first structure on a shared key
merge_params_first(params_old, params_new) ==
  [key \in DOMAIN params_old \cup DOMAIN params_new |->
     IF key \in DOMAIN params_old THEN params_old[key] ELSE params_new[key]]

\* hk.data_structures.merge(params_old, params_new): every leaf of both
\* structures, the later structure winning on a key both have; no check
merge_params(params_old, params_new) ==
  [key \in DOMAIN params_old \cup DOMAIN params_new |->
     IF key \in DOMAIN params_new THEN params_new[key] ELSE params_old[key]]

(***************************************************************************)
(* Harness for split_params / merge_params on arbitrary trees              *)
(***************************************************************************)
ModuleNames == {<<"a">>, <<"a", "b">>, <<"b">>}
LeafNames == {<<"w">>, <<"b">>}
Keys == ModuleNames \X LeafNames
SmallKeys == {<<"a">>, <<"a", "b">>} \X LeafNames
PatternPool == {<<"a">>, <<"a", "/">>, <<"a", "b">>, <<"b", "/", "w">>,
                <<"/", "w">>, <<".", "b">>}

Trees(keys) == UNION {[D -> 1..MaxVal] : D \in SUBSET keys}
PatternLists == UNION {[1..n -> PatternPool] : n \in 0..MaxPatterns}

InitParams ==
  /\ method = "round_robin" /\ max_age = 1 /\ n_epochs = 0 /\ lead_is_dev = TRUE
  /\ wfs = <<>> /\ n_epoch = 0 /\ index_next = -1 /\ exc = NoExc
  /\ shared_params = <<>> /\ params = <<>> /\ opt_state = 0 /\ i = 0
  /\ log = <<>> /\ chosen = <<>>
  /\ ret = <<>>
  /\ \/ /\ pc = "split"
        /\ arg \in [params : Trees(Keys), module_names : PatternLists]
     \/ /\ pc = "merge"
        /\ arg \in [params_old : Trees(SmallKeys), params_new : Trees(SmallKeys)]

\* shared, unique = split_params(params, module_names)
CallSplit ==
  /\ pc = "split"
  /\ LET parts == split_params(arg.params, arg.module_names) IN
       ret' = [shared |-> parts[1], unique |-> parts[2]]
  /\ pc' = "split_done"
  /\ UNCHANGED <<cfgvars, runvars, wfs, n_epoch, index_next, exc, arg>>

\* merge_params(*split_params(params, module_names))
CallMergeParts ==
  /\ pc = "split_done"
  /\ ret' = [shared |-> ret.shared, unique |-> ret.unique,
             merged |-> merge_params(ret.shared, ret.unique)]
  /\ pc' = "roundtrip_done"
  /\ UNCHANGED <<cfgvars, runvars, wfs, n_epoch, index_next, exc, arg>>

\* merge_params(params_old, params_new) on two arbitrary structures; the
\* call contains no raise, so it always returns
CallMerge ==
  /\ pc = "merge"
  /\ ret' = [merged |-> merge_params(arg.params_old, arg.params_new)]
  /\ exc' = NoExc
  /\ pc' = "merge_done"
  /\ UNCHANGED <<cfgvars, runvars, wfs, n_epoch, index_next, arg>>

NextParams == CallSplit \/ CallMergeParts \/ CallMerge

SpecParams == InitParams /\ [][NextParams]_vars

(***************************************************************************)
(* Properties of split_params / merge_params (checked under SpecParams)    *)
(***************************************************************************)
\* number of patterns of the list that match the path of a key
MatchCount(module_names, key) ==
  Cardinality({n \in DOMAIN module_names :
     \E off \in 0..(Len(key[1]) + 1 + Len(key[2])) :
        match_at(module_names[n], path_of(key[1], key[2]), off)})
NonOverlapping ==
  \A key \in DOMAIN arg.params : MatchCount(arg.module_names, key) <= 1

\* C8: for every tree P and every pattern list in which each leaf matches at
\* most one pattern, merge_params(*split_params(P, patterns)) has the keys
\* of P and the value of P at every key.
C8_PartitionRoundTrip ==
  (pc = "roundtrip_done" /\ NonOverlapping) =>
    /\ DOMAIN ret.merged = DOMAIN arg.params
    /\ \A key \in DOMAIN arg.params : ret.merged[key] = arg.params[key]

\* a round trip in which module "ab" is divided between the two parts and
\* both parts carry leaves of different values
C8_Witness ==
  /\ pc = "roundtrip_done" /\ NonOverlapping
  /\ Len(arg.module_names) = 2
  /\ \A n \in 1..2 : \E key \in Keys : MatchCount(<<arg.module_names[n]>>, key) = 1
  /\ DOMAIN arg.params = Keys
  /\ <<<<"a", "b">>, <<"w">>>> \in DOMAIN ret.shared
  /\ <<<<"a", "b">>, <<"b">>>> \in DOMAIN ret.unique
  /\ arg.params[<<<<"a", "b">>, <<"w">>>>] # arg.params[<<<<"a", "b">>, <<"b">>>>]
  /\ ret.merged = arg.params

Overlap == DOMAIN arg.params_old \cap DOMAIN arg.params_new

C17_EmptyPatternsRejected ==
  (pc \in {"split_done", "roundtrip_done"} /\ Len(arg.module_names) = 0) =>
    (exc.type # "none" /\ DOMAIN ret.shared = {})

\* what the code does with the empty list: no error, every leaf is shared
C17_EmptyPatternsShareAll ==
  (pc \in {"split_done", "roundtrip_done"} /\ Len(arg.module_names) = 0) =>
    (exc = NoExc /\ ret.shared = arg.params /\ DOMAIN ret.unique = {})

\* split_params of a tree with leaves and the empty list has returned
C17_EmptyPatternsSplit ==
  /\ pc = "split_done" /\ Len(arg.module_names) = 0
  /\ DOMAIN arg.params # {} /\ DOMAIN ret.shared = DOMAIN arg.params

\* pattern pat is found somewhere inside text ('.' stands for any character)
Occurs(pat, text) ==
  \E off \in 0..(Len(text) - Len(pat)) :
    \A j \in 1..Len(pat) : pat[j] \in {".", text[off + j]}
\* some pattern of the list is found in module_name + "/" + leaf_name
SomePatternOccurs(module_names, key) ==
  \E n \in DOMAIN module_names :
    Occurs(module_names[n], key[1] \o <<"/">> \o key[2])
SplitReturned == pc \in {"split_done", "roundtrip_done"}
\* the two results share no key, cover the keys of P and keep its values
SplitIsPartition ==
  /\ DOMAIN ret.shared \cap DOMAIN ret.unique = {}
  /\ DOMAIN ret.shared \cup DOMAIN ret.unique = DOMAIN arg.params
  /\ \A key \in DOMAIN ret.shared : ret.shared[key] = arg.params[key]
  /\ \A key \in DOMAIN ret.unique : ret.unique[key] = arg.params[key]

\* C25: split_params(P, patterns) puts every leaf of P in exactly one of the
\* two results: in shared iff some pattern is found anywhere inside
\* module_name + "/" + leaf_name (search, not anchored), else in unique; the
\* results have disjoint keys, cover the keys of P and keep every value.
C25_SplitBySearch ==
  SplitReturned =>
    /\ SplitIsPartition
    /\ \A key \in DOMAIN arg.params :
         key \in DOMAIN ret.shared <=> SomePatternOccurs(arg.module_names, key)

\* what does hold: the same for every list with a pattern in it, and the
\* partition for every list
C25_SplitBySearchNonEmpty ==
  SplitReturned =>
    /\ SplitIsPartition
    /\ Len(arg.module_names) > 0 =>
         \A key \in DOMAIN arg.params :
           key \in DOMAIN ret.shared <=> SomePatternOccurs(arg.module_names, key)

\* a split by a pattern found in the middle of a path: "b/w" shares the
\* leaf w of module "ab" and of module "b", not the leaves of module "a"
C25_SearchInsidePath ==
  /\ pc = "split_done" /\ arg.module_names = << <<"b", "/", "w">> >>
  /\ DOMAIN arg.params = Keys
  /\ DOMAIN ret.shared = {<< <<"a", "b">>, <<"w">> >>, << <<"b">>, <<"w">> >>}

\* split_params with the empty list: no pattern is found in any path, yet
\* the leaves are in the shared result
C25_EmptyListSharesLeaf ==
  /\ pc = "split_done" /\ Len(arg.module_names) = 0
  /\ \E key \in DOMAIN ret.shared : ~SomePatternOccurs(arg.module_names, key)

(***************************************************************************)
(* Running metrics of a target (optimize_shared, "update metrics")         *)
(* The clipped objective sample stats["aux"]["E_loc_clipped"] is a tuple   *)
(* of entries: a number >= 0, NaN or Inf.                                  *)
(***************************************************************************)
\* sum of x^pow over the entries from position j on that a nan-function
\* keeps: every entry that is not NaN (pow = 0 counts them)
RECURSIVE nan_sum(_, _, _)
nan_sum(sample, j, pow) ==
  IF j > Len(sample) THEN 0
  ELSE (IF sample[j] = NaN THEN 0
        ELSE IF pow = 0 THEN 1
        ELSE IF pow = 1 THEN sample[j]
        ELSE sample[j] * sample[j])
       + nan_sum(sample, j + 1, pow)

\* square root (of the squares the modelled samples produce)
sqrt(v) == CHOOSE r \in 0..v : r * r <= v /\ (r + 1) * (r + 1) > v

\* jnp.nanstd(sample): NaN entries are dropped; an Inf entry stays in, the
\* mean is then infinite and inf - inf makes the result NaN; NaN as well
\* when nothing is left
jnp_nanstd(sample) ==
  LET n == nan_sum(sample, 1, 0) IN
  IF n = 0 THEN NaN
  ELSE IF \E j \in DOMAIN sample : sample[j] = Inf THEN NaN
  ELSE sqrt((n * nan_sum(sample, 1, 2)
             - nan_sum(sample, 1, 1) * nan_sum(sample, 1, 1)) \div (n * n))

\* dict(E_mean=stats["aux"]["E_loc_clipped"],
\*      E_std=jnp.nanstd(stats["aux"]["E_loc_clipped"]))
current_metrics(E_loc_clipped) ==
  [E_mean |-> [kind |-> "array", val |-> E_loc_clipped],
   E_std |-> [kind |-> "scalar", val |-> jnp_nanstd(E_loc_clipped)]]

(***************************************************************************)
(* Harness for the metrics of one objective sample                         *)
(***************************************************************************)
SampleVals == {NaN, Inf} \cup {2 * x : x \in 0..MaxStd}
\* samples of two or three entries with two finite entries or none, so that
\* mean and standard deviation of the finite entries are whole numbers
MetricSamples ==
  {sm \in [1..2 -> SampleVals] \cup [1..3 -> SampleVals] :
     Cardinality({j \in DOMAIN sm : sm[j] \notin {NaN, Inf}}) \in {0, 2}}

InitMetrics ==
  /\ method = "round_robin" /\ max_age = 1 /\ n_epochs = 0 /\ lead_is_dev = TRUE
  /\ wfs = <<>> /\ n_epoch = 0 /\ index_next = -1 /\ exc = NoExc
  /\ shared_params = <<>> /\ params = <<>> /\ opt_state = 0 /\ i = 0
  /\ log = <<>> /\ chosen = <<>>
  /\ ret = <<>>
  /\ pc = "metrics"
  /\ arg \in [E_loc_clipped : MetricSamples]

\* wf.current_metrics = dict(...)
CallMetrics ==
  /\ pc = "metrics"
  /\ ret' = current_metrics(arg.E_loc_clipped)
  /\ pc' = "metrics_done"
  /\ UNCHANGED <<cfgvars, runvars, wfs, n_epoch, index_next, exc, arg>>

NextMetrics == CallMetrics

SpecMetrics == InitMetrics /\ [][NextMetrics]_vars

\* mean of the finite entries of the sample
FiniteCount(sm) == Cardinality({j \in DOMAIN sm : sm[j] \notin {NaN, Inf}})
FiniteMean(sm) ==
  CHOOSE m \in 0..(2 * MaxStd) :
    \A j, h \in {g \in DOMAIN sm : sm[g] \notin {NaN, Inf}} :
      j # h => 2 * m = sm[j] + sm[h]
\* standard deviation of the (two) finite entries of the sample
FiniteStd(sm) ==
  CHOOSE d \in 0..MaxStd :
    \A j, h \in {g \in DOMAIN sm : sm[g] \notin {NaN, Inf}} :
      j # h => (2 * d = sm[j] - sm[h] \/ 2 * d = sm[h] - sm[j])

\* C11: after a step the metrics of the selected target are the mean
\* (E_mean, one value) and the standard deviation (E_std) of the finite
\* entries of the clipped objective sample, NaN and infinite entries being
\* left out of both.
C11_FiniteOnlyMetrics ==
  (pc = "metrics_done" /\ FiniteCount(arg.E_loc_clipped) = 2) =>
    /\ ret.E_mean.kind = "scalar"
    /\ ret.E_mean.val = FiniteMean(arg.E_loc_clipped)
    /\ ret.E_std.kind = "scalar"
    /\ ret.E_std.val = FiniteStd(arg.E_loc_clipped)

\* the E_std half of C11 alone
C11_StdOfFiniteEntries ==
  (pc = "metrics_done" /\ FiniteCount(arg.E_loc_clipped) = 2) =>
    ret.E_std.val = FiniteStd(arg.E_loc_clipped)

\* what does hold: E_std is the standard deviation of the finite entries
\* whenever the sample has no infinite entry
C11_StdWithoutInf ==
  (/\ pc = "metrics_done" /\ FiniteCount(arg.E_loc_clipped) = 2
   /\ Inf \notin Range(arg.E_loc_clipped)) =>
    ret.E_std.val = FiniteStd(arg.E_loc_clipped)

(***************************************************************************)
(* optimize_shared                                                         *)
(***************************************************************************)
\* opt_config.shared_optimization.shared_modules of the modelled run
shared_modules == << <<"a", "b">> >>
RunKeys == {<< <<"a">>, <<"w">> >>, << <<"a", "b">>, <<"w">> >>,
            << <<"a", "b">>, <<"b">> >>}

\* init_wfs: new_trainable_params of wavefunction j as built by
\* build_log_psi_squared: its own values, not yet updated, no device axis
new_trainable_params(j) ==
  [key \in RunKeys |-> [owner |-> j, ver |-> 0, rep |-> FALSE]]

\* replicate_across_devices as seen by the loop: every leaf gets the
\* leading device axis
replicated(tree) == [key \in DOMAIN tree |-> [tree[key] EXCEPT !.rep = TRUE]]

optimizer_step_unchanged(tree, n) == replicated(tree)

\* optimizer.step at epoch n: every leaf of the full parameter set is
\* updated, the result comes out of a pmap (device axis on every leaf)
optimizer_step(tree, n) ==
  [key \in DOMAIN tree |-> [owner |-> tree[key].owner, ver |-> n + 1, rep |-> TRUE]]

\* log_psi_squared_pmapped(params, ...) accepts a leaf without device axis
\* only if its leading dimension happens to equal the device count
pmap_accepts(tree, lead) == \A key \in DOMAIN tree : tree[key].rep \/ lead

PmapError == [type |-> "ValueError", msg |-> <<"pmap", "axis", "sizes">>]

counters_without_increment(wf, n) == [wf EXCEPT !.last_epoch_optimized = n]

\* wf.n_opt_epochs += 1; wf.last_epoch_optimized = n_epoch
update_counters(wf, n) ==
  [wf EXCEPT !.n_opt_epochs = @ + 1, !.last_epoch_optimized = n]

clipping_always_init(clipping_params) == <<"init">>

\* wf.clipping_params or init_clipping_state()
clipping_or_init(clipping_params) ==
  IF clipping_params = None THEN <<"init">> ELSE clipping_params

store_unique_in_all(ws, index, unique) ==
  [j \in DOMAIN ws |-> [ws[j] EXCEPT !.unique_trainable_params = unique]]

\* shared_params, wf.unique_trainable_params = split_params(...): the unique
\* part is an attribute of the selected target
store_unique(ws, index, unique) ==
  [ws EXCEPT ![index].unique_trainable_params = unique]

store_metrics_in_class_dict(ws, index, metrics) ==
  [j \in DOMAIN ws |-> [ws[j] EXCEPT !.E_std = metrics.E_std.val]]

\* wf.current_metrics = dict(...): the attribute of the selected target is
\* bound to a new dict, the dict of the class is left as it is
store_metrics(ws, index, metrics) ==
  [ws EXCEPT ![index].E_std = metrics.E_std.val]

\* clipped objective samples of the steps of a run: their E_std are the
\* values 1..MaxStd and NaN
StepSamples ==
  {<<0, 2 * sd>> : sd \in 1..MaxStd} \cup {<<NaN, NaN>>, <<0, Inf>>}

run_inter_steps_twice(mcmc_state, tree) ==
  [mcmc_state EXCEPT !.phase = "Steady", !.n_inter = @ + 2, !.params = tree]

\* mcmc.run_inter_steps(log_psi_squared, wf.mcmc_state, params, ...): one
\* decorrelation pass with the given parameters
run_inter_steps(mcmc_state, tree) ==
  [mcmc_state EXCEPT !.phase = "Steady", !.n_inter = @ + 1, !.params = tree]

\* wf.mcmc_state.build_batch(wf.fixed_params): the walkers of the sampler
\* state as it is at the call
build_batch(mcmc_state) == [phase |-> mcmc_state.phase, n_inter |-> mcmc_state.n_inter]

NEpochsChoices == {0, 1, WarmupRounds + ExtraRounds}

\* state at the call optimize_shared(log_psi_squared, shared_params, wfs,
\* opt_config, None) after init_wfs; the targets of `given` come with a
\* clipping state
Init ==
  /\ method \in Methods
  /\ max_age \in 1..MaxAge
  /\ n_epochs \in NEpochsChoices
  /\ lead_is_dev \in BOOLEAN
  /\ \E k \in 1..MaxWfs : \E given \in SUBSET (0..(k - 1)) :
       wfs = [j \in 0..(k - 1) |->
                [WaveFunctionData EXCEPT
                   !.unique_trainable_params =
                      split_params(new_trainable_params(j), shared_modules)[2],
                   !.clipping_params = IF j \in given THEN <<"given">> ELSE None]]
  /\ shared_params = split_params(new_trainable_params(0), shared_modules)[1]
  /\ params = None
  /\ opt_state = -1
  /\ i = -1
  /\ n_epoch = 0
  /\ index_next = -1
  /\ exc = NoExc
  /\ log = <<>>
  /\ chosen = [age |-> -1, E_std |-> NoMetric]
  /\ pc = "burn_in"
  /\ arg = <<>>
  /\ ret = <<>>

\* one iteration of: for i, wf in enumerate(wfs)
BurnIn ==
  /\ pc = "burn_in"
  /\ i + 1 < len(wfs)
  /\ LET j == i + 1
         wf == wfs[j]
         merged == replicated(merge_params(shared_params, wf.unique_trainable_params))
     IN /\ i' = j
        /\ params' = merged
        /\ wfs' = [wfs EXCEPT ![j] =
                     [wf EXCEPT
                        !.clipping_params = clipping_or_init(wf.clipping_params),
                        !.mcmc_state = [phase |-> "BurnedIn", n_inter |-> 0,
                                        params |-> merged]]]
        /\ pc' = IF j + 1 = len(wfs) THEN "opt_init" ELSE "burn_in"
  /\ UNCHANGED <<cfgvars, callvars, shared_params, opt_state, log, chosen,
                 n_epoch, index_next, exc>>

\* wf_loggers, rng, value_and_grad_func, optimizer, opt_state
InitOptimizer ==
  /\ pc = "opt_init"
  /\ opt_state' = 0
  /\ pc' = "loop"
  /\ UNCHANGED <<cfgvars, callvars, wfs, shared_params, params, i, log, chosen,
                 n_epoch, index_next, exc>>

\* body of: for n_epoch in range(opt_config.n_epochs * n_wfs)
Step ==
  /\ pc = "loop"
  /\ n_epoch < n_epochs * len(wfs)
  /\ LET r == get_index(n_epoch, wfs, method, max_age) IN
     IF r.exc # NoExc
     THEN /\ exc' = r.exc
          /\ pc' = "error"
          /\ UNCHANGED <<cfgvars, callvars, runvars, wfs, n_epoch, index_next>>
     ELSE LET wf == wfs[r.index]
              merged == merge_params(params, wf.unique_trainable_params)
          IN
          IF ~pmap_accepts(merged, lead_is_dev)
          THEN /\ index_next' = r.index
               /\ params' = merged
               /\ exc' = PmapError
               /\ pc' = "error"
               /\ UNCHANGED <<cfgvars, callvars, wfs, n_epoch, shared_params,
                              opt_state, i, log, chosen>>
          ELSE LET stepped == optimizer_step(merged, n_epoch)
                   parts == split_params(stepped, shared_modules)
               IN \E E_loc_clipped \in StepSamples :
                    /\ index_next' = r.index
                    /\ chosen' = [age |-> n_epoch - wf.last_epoch_optimized,
                                  E_std |-> wf.E_std]
                    /\ params' = stepped
                    /\ opt_state' = opt_state + 1
                    /\ shared_params' = parts[1]
                    /\ log' = [logger |-> i, target |-> r.index, epoch |-> n_epoch]
                    /\ wfs' = store_metrics(
                         store_unique(
                           [wfs EXCEPT ![r.index] =
                              update_counters(
                                [wf EXCEPT
                                   !.mcmc_state = run_inter_steps(@, merged),
                                   !.clipping_params = <<"stepped">>],
                                n_epoch)],
                           r.index, parts[2]),
                         r.index, current_metrics(E_loc_clipped))
                    /\ n_epoch' = n_epoch + 1
                    /\ UNCHANGED <<cfgvars, callvars, i, exc, pc>>

\* return wfs, shared_params, opt_state
Return ==
  /\ pc = "loop"
  /\ n_epoch = n_epochs * len(wfs)
  /\ ret' = [shared_params |-> shared_params, opt_state |-> opt_state]
  /\ pc' = "done"
  /\ UNCHANGED <<cfgvars, runvars, wfs, n_epoch, index_next, exc, arg>>

Next == BurnIn \/ InitOptimizer \/ Step \/ Return

Spec == Init /\ [][Next]_vars

(***************************************************************************)
(* The body of the epoch loop statement by statement (short runs): pc is   *)
(* the statement to execute next, arg holds the locals of the body (the    *)
(* batch passed to optimizer.step and the sample of its stats).            *)
(***************************************************************************)
InitSteps == Init /\ n_epochs <= 1

\* index_next = get_index(...); wf = wfs[index_next]
SelectTarget ==
  /\ pc = "loop"
  /\ n_epoch < n_epochs * len(wfs)
  /\ LET r == get_index(n_epoch, wfs, method, max_age) IN
     IF r.exc # NoExc
     THEN /\ exc' = r.exc
          /\ pc' = "error"
          /\ UNCHANGED <<index_next, chosen>>
     ELSE /\ index_next' = r.index
          /\ chosen' = [age |-> n_epoch - wfs[r.index].last_epoch_optimized,
                        E_std |-> wfs[r.index].E_std]
          /\ pc' = "merge"
          /\ exc' = exc
  /\ UNCHANGED <<cfgvars, callvars, wfs, n_epoch, shared_params, params,
                 opt_state, i, log>>

\* params = merge_params(params, wf.unique_trainable_params)
MergeParams ==
  /\ pc = "merge"
  /\ params' = merge_params(params, wfs[index_next].unique_trainable_params)
  /\ pc' = "inter"
  /\ UNCHANGED <<cfgvars, callvars, wfs, n_epoch, index_next, exc,
                 shared_params, opt_state, i, log, chosen>>

\* wf.mcmc_state.log_psi_sqr = log_psi_squared_pmapped(params, ...);
\* wf.mcmc_state = mcmc.run_inter_steps(...)
InterSteps ==
  /\ pc = "inter"
  /\ IF ~pmap_accepts(params, lead_is_dev)
     THEN /\ exc' = PmapError
          /\ pc' = "error"
          /\ wfs' = wfs
     ELSE /\ wfs' = [wfs EXCEPT ![index_next].mcmc_state =
                                 run_inter_steps(@, params)]
          /\ pc' = "opt_step"
          /\ exc' = exc
  /\ UNCHANGED <<cfgvars, callvars, n_epoch, index_next, shared_params, params,
                 opt_state, i, log, chosen>>

\* params, opt_state, wf.clipping_params, stats = optimizer.step(...,
\*   batch=wf.mcmc_state.build_batch(wf.fixed_params), ...)
OptimizerStep ==
  /\ pc = "opt_step"
  /\ \E E_loc_clipped \in StepSamples :
       arg' = [batch |-> build_batch(wfs[index_next].mcmc_state),
               E_loc_clipped |-> E_loc_clipped]
  /\ params' = optimizer_step(params, n_epoch)
  /\ opt_state' = opt_state + 1
  /\ wfs' = [wfs EXCEPT ![index_next].clipping_params = <<"stepped">>]
  /\ pc' = "split"
  /\ UNCHANGED <<cfgvars, ret, n_epoch, index_next, exc, shared_params, i,
                 log, chosen>>

\* shared_params, wf.unique_trainable_params = split_params(params, ...)
SplitParams ==
  /\ pc = "split"
  /\ LET parts == split_params(params, shared_modules) IN
       /\ shared_params' = parts[1]
       /\ wfs' = store_unique(wfs, index_next, parts[2])
  /\ pc' = "log"
  /\ UNCHANGED <<cfgvars, callvars, n_epoch, index_next, exc, params,
                 opt_state, i, log, chosen>>

\* wf_loggers[i].log_step(...)
LogStep ==
  /\ pc = "log"
  /\ log' = [logger |-> i, target |-> index_next, epoch |-> n_epoch]
  /\ pc' = "metrics"
  /\ UNCHANGED <<cfgvars, callvars, wfs, n_epoch, index_next, exc,
                 shared_params, params, opt_state, i, chosen>>

\* wf.current_metrics = dict(...); wf.n_opt_epochs += 1;
\* wf.last_epoch_optimized = n_epoch; then the next n_epoch of the range
UpdateMetrics ==
  /\ pc = "metrics"
  /\ wfs' = [store_metrics(wfs, index_next, current_metrics(arg.E_loc_clipped))
              EXCEPT ![index_next] = update_counters(@, n_epoch)]
  /\ n_epoch' = n_epoch + 1
  /\ arg' = <<>>
  /\ pc' = "loop"
  /\ UNCHANGED <<cfgvars, ret, index_next, exc, shared_params, params,
                 opt_state, i, log, chosen>>

NextSteps ==
  \/ BurnIn \/ InitOptimizer \/ SelectTarget \/ MergeParams \/ InterSteps
  \/ OptimizerStep \/ SplitParams \/ LogStep \/ UpdateMetrics \/ Return

SpecSteps == InitSteps /\ [][NextSteps]_vars

(***************************************************************************)
(* Properties of the optimize_shared run (checked under Spec)              *)
(***************************************************************************)
\* the smallest integer not below x / k
CeilDiv(x, k) == -((-x) \div k)

\* epochs completed so far; the last one is epoch n_epoch - 1
InLoop == pc \in {"loop", "done"}
StepTaken == InLoop /\ n_epoch >= 1
LastEpoch == n_epoch - 1

\* age and E_std target t had when get_index was called for the last epoch
AgeAtSelection(t) ==
  IF t = index_next THEN chosen.age ELSE LastEpoch - wfs[t].last_epoch_optimized
StdAtSelection(t) ==
  IF t = index_next THEN chosen.E_std ELSE wfs[t].E_std

\* C2: in a round_robin run over k targets starting from n_opt_epochs = 0
\* the selected indices are 0,1,...,k-1,0,1,... and after N epochs target i
\* has been selected exactly ceil((N-i)/k) times; k = 3 and epochs 0..8 give
\* 0,1,2,0,1,2,0,1,2.
C2_RoundRobinFairness ==
  (method = "round_robin" /\ InLoop) =>
    /\ \A t \in DOMAIN wfs : wfs[t].n_opt_epochs = CeilDiv(n_epoch - t, len(wfs))
    /\ n_epoch >= 1 => index_next = LastEpoch % len(wfs)
    /\ (len(wfs) = 3 /\ n_epoch \in 1..9) =>
         index_next = <<0, 1, 2, 0, 1, 2, 0, 1, 2>>[n_epoch]

\* eight epochs over three targets: target 2 is one selection behind
C2_Witness ==
  /\ method = "round_robin" /\ InLoop /\ len(wfs) = 3 /\ n_epoch = 8
  /\ wfs[0].n_opt_epochs = 3 /\ wfs[1].n_opt_epochs = 3 /\ wfs[2].n_opt_epochs = 2
  /\ index_next = 1

\* the last epoch was an epoch after the warm-up of a stddev run
AdaptiveStepTaken ==
  StepTaken /\ method = "stddev" /\ LastEpoch >= WarmupRounds * len(wfs)

\* every other target had a lower E_std than t at the selection
OthersLowerStd(t) ==
  /\ StdAtSelection(t) \in 1..MaxStd
  /\ \A j \in DOMAIN wfs \ {t} :
       StdAtSelection(j) \in 1..MaxStd /\ StdAtSelection(j) < StdAtSelection(t)
OthersHigherStd(t) ==
  /\ StdAtSelection(t) \in 1..MaxStd
  /\ \A j \in DOMAIN wfs \ {t} :
       StdAtSelection(j) \in 1..MaxStd /\ StdAtSelection(j) > StdAtSelection(t)

\* C5 as stated: after the warm-up of a stddev run, a target whose age
\* exceeds max_age while the other targets have lower stddev is the target
\* selected at that epoch.
C5_TooOldIsSelected ==
  AdaptiveStepTaken =>
    \A t \in DOMAIN wfs :
      (AgeAtSelection(t) > max_age /\ OthersLowerStd(t)) => index_next = t

\* C5 (amended): after the warm-up of a stddev run, a target whose age
\* exceeds max_age and is the largest age of all targets is the target
\* selected at that epoch, whatever the stddev ranking is; with
\* max_age >= target_count - 1 no two targets exceed max_age at the same
\* epoch, so there every target whose age exceeds max_age is selected.
C5_OldestTooOldIsSelected ==
  AdaptiveStepTaken =>
    /\ \A t \in DOMAIN wfs :
         (/\ AgeAtSelection(t) > max_age
          /\ \A j \in DOMAIN wfs : AgeAtSelection(j) <= AgeAtSelection(t))
         => index_next = t
    /\ max_age >= len(wfs) - 1 =>
         \A t \in DOMAIN wfs : AgeAtSelection(t) > max_age => index_next = t

\* target 2 reached age max_age + 1 after the warm-up while both other
\* targets had a higher E_std, and was selected
C5_Witness ==
  /\ AdaptiveStepTaken /\ len(wfs) = 3 /\ max_age = MaxAge
  /\ index_next = 2 /\ chosen.age = max_age + 1
  /\ OthersHigherStd(2)

\* the same with both other targets at a lower E_std
C5_WitnessLower ==
  /\ AdaptiveStepTaken /\ len(wfs) = 3 /\ max_age = MaxAge
  /\ index_next = 2 /\ chosen.age = max_age + 1
  /\ OthersLowerStd(2)

\* sum of n_opt_epochs over the targets j, j+1, ...
RECURSIVE SumOptEpochs(_, _)
SumOptEpochs(ws, j) ==
  IF j >= len(ws) THEN 0 ELSE ws[j].n_opt_epochs + SumOptEpochs(ws, j + 1)

Budget == n_epochs * len(wfs)
Supported == method \in {"round_robin", "stddev"}
Ended == pc \in {"done", "error"}

\* C12: a call of optimize_shared with k targets and budget n_epochs makes
\* exactly n_epochs * k scheduler steps, epoch index going up by one from 0,
\* each step updating one target (the n_opt_epochs sum to n_epochs * k), and
\* then returns; with n_epochs = 0 it makes no step.
C12_ExactlyBudgetSteps ==
  /\ (Supported /\ InLoop) => SumOptEpochs(wfs, 0) = n_epoch
  /\ (Supported /\ Ended) =>
       /\ pc = "done"
       /\ n_epoch = Budget
       /\ opt_state = Budget
       /\ SumOptEpochs(wfs, 0) = Budget

\* what does hold: the counts of a call that returns
C12_BudgetStepsOnReturn ==
  /\ InLoop => (SumOptEpochs(wfs, 0) = n_epoch /\ opt_state = n_epoch)
  /\ pc = "done" => n_epoch = Budget
  /\ n_epoch <= Budget

\* a call with a supported method that ended before its budget was used
C12_AbortedRun ==
  /\ Supported /\ pc = "error" /\ exc = PmapError
  /\ n_epoch = 0 /\ Budget > 0

\* keys of the run that a pattern of shared_modules is found in
RunSharedKeys == {key \in RunKeys : key[1] = <<"a", "b">>}
RunUniqueKeys == RunKeys \ RunSharedKeys
\* the transitions that are one whole step of the epoch loop
StepDone == pc = "loop" /\ n_epoch' = n_epoch + 1

\* C13: in a step, the shared part of the updated parameters replaces the
\* one shared parameter set and the unique part is written into the selected
\* target only; unique parameters, sampler state and clipping state of every
\* other target are as they were before the step.
C13_StepFrame ==
  [][StepDone =>
       /\ \A key \in RunKeys : params'[key].ver = n_epoch + 1
       /\ shared_params' = Restrict(params', RunSharedKeys)
       /\ wfs'[index_next'].unique_trainable_params =
            Restrict(params', RunUniqueKeys)
       /\ \A t \in DOMAIN wfs \ {index_next'} :
            /\ wfs'[t].unique_trainable_params = wfs[t].unique_trainable_params
            /\ wfs'[t].mcmc_state = wfs[t].mcmc_state
            /\ wfs'[t].clipping_params = wfs[t].clipping_params]_vars

\* after the step of epoch 1 (target 1 of round robin): shared parameters
\* and the unique ones of target 1 are those of this step, target 0 has the
\* unique parameters, sampler state and clipping state of its own step
C13_Witness ==
  /\ pc = "loop" /\ n_epoch = 2 /\ index_next = 1 /\ len(wfs) >= 2
  /\ \A key \in RunSharedKeys : shared_params[key].ver = 2
  /\ \A key \in RunUniqueKeys :
       /\ wfs[1].unique_trainable_params[key] = [owner |-> 1, ver |-> 2, rep |-> TRUE]
       /\ wfs[0].unique_trainable_params[key] = [owner |-> 0, ver |-> 1, rep |-> TRUE]
  /\ wfs[0].mcmc_state.n_inter = 1 /\ wfs[0].clipping_params = <<"stepped">>

\* C14: the log record of a step goes to the logger of the target selected
\* in that step (the index get_index returned), never to the logger of
\* another target.
C14_LogToSelectedTarget ==
  StepTaken => (log.target = index_next /\ log.logger = log.target)

\* the record of the step of epoch 0 of a run of several targets, target 0
\* selected, in the logger of the last target
C14_LoggedElsewhere ==
  /\ StepTaken /\ n_epoch = 1 /\ len(wfs) >= 2
  /\ log.target = 0 /\ log.logger = len(wfs) - 1

\* the sampler state of target t exists
HasSampler(t) == DOMAIN wfs[t].mcmc_state # {}
\* merge of the shared parameters the call was given (those of target 0 at
\* init_wfs) with the unique parameters of target t, replicated
InitialMerge(t) ==
  [key \in RunKeys |->
     [owner |-> IF key \in RunSharedKeys THEN 0 ELSE t, ver |-> 0, rep |-> TRUE]]
\* the transitions that are one iteration of the burn-in loop
BurnInDone == pc = "burn_in" /\ i' = i + 1

\* C15: the sampler of every target is resized or initialised and burned in
\* before the first optimizer step of any target; the burn-in of a target
\* uses the merge of the initial shared parameters with the unique
\* parameters of that same target; the clipping state of a target is
\* initialised only when the target has none, an existing one is kept.
C15_BurnInBeforeSteps ==
  /\ [](\A t \in DOMAIN wfs :
          /\ (pc # "burn_in" \/ opt_state >= 0 \/ wfs[t].n_opt_epochs > 0) =>
               \A u \in DOMAIN wfs : HasSampler(u)
          /\ (HasSampler(t) /\ wfs[t].n_opt_epochs = 0) =>
               /\ wfs[t].mcmc_state.phase = "BurnedIn"
               /\ wfs[t].mcmc_state.params = InitialMerge(t))
  /\ [][BurnInDone =>
          /\ wfs'[i'].mcmc_state.phase = "BurnedIn"
          /\ wfs'[i'].clipping_params =
               IF wfs[i'].clipping_params = None
               THEN <<"init">> ELSE wfs[i'].clipping_params
          /\ \A t \in DOMAIN wfs \ {i'} : wfs'[t] = wfs[t]]_vars

\* two targets burned in, no step made yet: target 0 came with a clipping
\* state and has kept it, target 1 came without and has a new one
C15_Witness ==
  /\ pc = "loop" /\ n_epoch = 0 /\ opt_state = 0 /\ len(wfs) = 2
  /\ wfs[0].clipping_params = <<"given">> /\ wfs[1].clipping_params = <<"init">>
  /\ wfs[0].mcmc_state.params = InitialMerge(0)
  /\ wfs[1].mcmc_state.params = InitialMerge(1)

\* the value of a leaf, whatever its layout
Value(leaf) == [owner |-> leaf.owner, ver |-> leaf.ver]
\* the full parameter set the step just made handed to log_psi_squared, the
\* sampler and optimizer.step
HandedParams == wfs'[index_next'].mcmc_state.params

\* C18: the full parameter set a step hands to the sampler and to
\* optimizer.step is made of the current shared parameter values and of the
\* unique values of the selected target: no unique value of the target
\* selected before, or of any other target, survives the merge.
C18_MergedIsSharedPlusOwnUnique ==
  [][StepDone =>
       /\ DOMAIN HandedParams = RunKeys
       /\ \A key \in RunSharedKeys :
            Value(HandedParams[key]) = Value(shared_params[key])
       /\ \A key \in RunUniqueKeys :
            /\ HandedParams[key] =
                 wfs[index_next'].unique_trainable_params[key]
            /\ HandedParams[key].owner = index_next']_vars

\* target 1 has handed over, at epoch 1, the shared values of epoch 0 (made
\* by the step of target 0) with its own unique values
C18_Witness ==
  /\ pc = "loop" /\ n_epoch = 2 /\ index_next = 1
  /\ \A key \in RunSharedKeys :
       Value(wfs[1].mcmc_state.params[key]) = [owner |-> 0, ver |-> 1]
  /\ \A key \in RunUniqueKeys :
       Value(wfs[1].mcmc_state.params[key]) = [owner |-> 1, ver |-> 0]
  /\ \A key \in RunUniqueKeys : params[key].owner = 1

\* the layout the optimizer state was initialised with (line 200: the
\* replicated params of the burn-in loop): all keys, every leaf tiled
SameLayoutAsInit(tree) ==
  DOMAIN tree = RunKeys /\ \A key \in RunKeys : tree[key].rep

\* C19: at every step, the first step of a target included, the merged full
\* parameter set has the structure of the set the optimizer state was
\* initialised with: same keys, same layout of every leaf, every leaf
\* (shared and unique) with the leading device axis of replication.
C19_MergedLayoutAsInit ==
  /\ (pc = "error" /\ exc = PmapError) => SameLayoutAsInit(params)
  /\ \A t \in DOMAIN wfs :
       (HasSampler(t) /\ wfs[t].n_opt_epochs > 0) =>
         SameLayoutAsInit(wfs[t].mcmc_state.params)

\* what does hold: the layout is that of the initialisation from the second
\* step of a target on
C19_LayoutFromSecondStep ==
  \A t \in DOMAIN wfs :
    (HasSampler(t) /\ wfs[t].n_opt_epochs > 1) =>
      SameLayoutAsInit(wfs[t].mcmc_state.params)

\* the merged set of epoch 0: shared leaves tiled, unique leaves as
\* init_wfs made them
C19_UntiledUniqueLeaves ==
  /\ pc = "error" /\ exc = PmapError /\ n_epoch = 0 /\ index_next = 0
  /\ \A key \in RunSharedKeys : params[key].rep
  /\ \A key \in RunUniqueKeys : ~params[key].rep

\* C20: after the step of epoch n the selected target has
\* last_epoch_optimized = n and one more in n_opt_epochs; last_epoch_optimized,
\* n_opt_epochs and current_metrics of every other target are as before (the
\* metrics container of the class is never changed in place, so the metrics
\* of a target never show through another one).
C20_CountersAndMetricsFrame ==
  [][StepDone =>
       /\ wfs'[index_next'].last_epoch_optimized = n_epoch
       /\ wfs'[index_next'].n_opt_epochs = wfs[index_next'].n_opt_epochs + 1
       /\ \A t \in DOMAIN wfs \ {index_next'} :
            /\ wfs'[t].last_epoch_optimized = wfs[t].last_epoch_optimized
            /\ wfs'[t].n_opt_epochs = wfs[t].n_opt_epochs
            /\ wfs'[t].E_std = wfs[t].E_std]_vars

\* after the steps of epochs 0 and 1 of three targets: targets 0 and 1 have
\* each their own metrics and counters, target 2 still has no metrics
C20_Witness ==
  /\ pc = "loop" /\ n_epoch = 2 /\ index_next = 1 /\ len(wfs) = 3
  /\ wfs[0].E_std = 1 /\ wfs[1].E_std = MaxStd /\ wfs[2].E_std = NoMetric
  /\ wfs[0].last_epoch_optimized = 0 /\ wfs[1].last_epoch_optimized = 1
  /\ wfs[0].n_opt_epochs = 1 /\ wfs[1].n_opt_epochs = 1
  /\ wfs[2].n_opt_epochs = 0

\* the statements of the loop body after the selection, in source order
BodyOrder == <<"merge", "inter", "opt_step", "split", "log", "metrics">>
InBody == pc \in Range(BodyOrder)
\* passes the sampler of target t has made, and updates target t has had
Passes(t) == wfs[t].mcmc_state.n_inter
Updates(t) == wfs[t].n_opt_epochs

\* C21: in a step the operations on the selected target happen in this
\* order, once each: merge of the parameters, one inter-step pass of the
\* sampler of that target, draw of the batch from the advanced sampler state,
\* optimizer step, re-split, update of metrics and counters; the pass is made
\* on a burned-in target and on no other target in that epoch.
C21_StepOrder ==
  /\ [][(pc # pc' /\ (InBody \/ pc' \in Range(BodyOrder))) =>
          \/ pc = "loop" /\ pc' = "merge"
          \/ pc = "metrics" /\ pc' = "loop"
          \/ pc = "inter" /\ pc' = "error"
          \/ \E h \in 1..(Len(BodyOrder) - 1) :
               pc = BodyOrder[h] /\ pc' = BodyOrder[h + 1]]_vars
  /\ [][(pc = "inter" /\ pc' = "opt_step") =>
          /\ wfs[index_next].mcmc_state.phase \in {"BurnedIn", "Steady"}
          /\ \A u \in DOMAIN wfs \ {index_next} : wfs'[u] = wfs[u]]_vars
  /\ [](/\ InBody =>
             \A u \in DOMAIN wfs \ {index_next} : Passes(u) = Updates(u)
        /\ pc \in {"loop", "done"} =>
             (opt_state = n_epoch /\ \A u \in DOMAIN wfs : Passes(u) = Updates(u))
        /\ pc = "inter" =>
             /\ Restrict(params, RunUniqueKeys) =
                  wfs[index_next].unique_trainable_params
             /\ Passes(index_next) = Updates(index_next)
             /\ opt_state = n_epoch
        /\ pc = "opt_step" =>
             /\ Passes(index_next) = Updates(index_next) + 1
             /\ wfs[index_next].mcmc_state.params = params
             /\ opt_state = n_epoch
        /\ pc = "split" =>
             /\ arg.batch.n_inter = Updates(index_next) + 1
             /\ Passes(index_next) = arg.batch.n_inter
             /\ opt_state = n_epoch + 1
             /\ \A key \in RunKeys : params[key].ver = n_epoch + 1
             /\ \A key \in RunSharedKeys : shared_params[key].ver # n_epoch + 1
        /\ pc \in {"log", "metrics"} =>
             /\ shared_params = Restrict(params, RunSharedKeys)
             /\ wfs[index_next].unique_trainable_params =
                  Restrict(params, RunUniqueKeys)
             /\ Passes(index_next) = Updates(index_next) + 1
             /\ opt_state = n_epoch + 1)

\* in the middle of the step of epoch 1: target 1 selected, its sampler one
\* pass ahead, the batch drawn after that pass, the optimizer step made, the
\* parameters not yet split
C21_Witness ==
  /\ pc = "split" /\ n_epoch = 1 /\ index_next = 1
  /\ Passes(1) = 1 /\ Updates(1) = 0 /\ arg.batch.n_inter = 1
  /\ Passes(0) = 1 /\ Updates(0) = 1
  /\ opt_state = 2

\* the shared parameters optimize_shared was called with
InitialShared == [key \in RunSharedKeys |-> [owner |-> 0, ver |-> 0, rep |-> FALSE]]

\* C22: the shared values used by the target selected at epoch n >= 1 are
\* the shared part of the parameters the optimizer step of epoch n-1 made
\* (whichever target ran it), at epoch 0 they are the initial shared
\* parameters; no step uses shared values older than the end of the epoch
\* before, and the shared_params optimize_shared returns is the shared part
\* made by the last step.
C22_SharedFromPreviousStep ==
  /\ [][StepDone =>
          \A key \in RunSharedKeys :
            /\ Value(HandedParams[key]) = Value(params[key])
            /\ Value(HandedParams[key]) = Value(shared_params[key])
            /\ HandedParams[key].ver = n_epoch
            /\ n_epoch = 0 => Value(HandedParams[key]) = Value(InitialShared[key])
            /\ params'[key].ver = n_epoch + 1]_vars
  /\ [](pc = "done" =>
          /\ ret.shared_params = shared_params
          /\ Budget >= 1 =>
               /\ ret.shared_params = Restrict(params, RunSharedKeys)
               /\ \A key \in RunSharedKeys : ret.shared_params[key].ver = Budget
          /\ Budget = 0 => ret.shared_params = InitialShared)

\* a run of two targets and two steps has returned: the second step used
\* the shared values made by the first, the values returned are those made
\* by the second
C22_Witness ==
  /\ pc = "done" /\ len(wfs) = 2 /\ n_epochs = 1 /\ index_next = 1
  /\ \A key \in RunSharedKeys :
       /\ wfs[1].mcmc_state.params[key].ver = 1
       /\ wfs[0].mcmc_state.params[key].ver = 0
       /\ ret.shared_params[key].ver = 2

\* C23: in a stddev run, when the adaptive branches of get_index are reached
\* (epoch n >= 10 * number of targets) every target has been updated at
\* least 10 times and so has an E_std metric; the adaptive branch never
\* reads the metric of a target that was never optimized.
C23_MetricsBeforeAdaptive ==
  /\ (method = "stddev" /\ pc = "loop" /\ ~in_warmup(n_epoch, wfs)) =>
       \A t \in DOMAIN wfs :
         wfs[t].n_opt_epochs >= WarmupRounds /\ wfs[t].E_std # NoMetric
  /\ (pc # "burn_in" /\ pc # "opt_init") => exc # KeyErrorEStd

\* the first epoch after the warm-up of a stddev run of three targets, each
\* updated 10 times, get_index about to take an adaptive branch
C23_Witness ==
  /\ method = "stddev" /\ pc = "loop" /\ len(wfs) = 3
  /\ n_epoch = 3 * WarmupRounds /\ n_epoch < Budget
  /\ \A t \in DOMAIN wfs : wfs[t].n_opt_epochs = WarmupRounds
  /\ wfs[0].E_std = NaN /\ wfs[1].E_std = 1

Max(a, b) == IF a >= b THEN a ELSE b
\* age of target t at the epoch about to be scheduled
AgeNow(t) == n_epoch - wfs[t].last_epoch_optimized

\* C24: in a stddev run, whatever max_age >= 1 and the E_std values are, no
\* target is left out for ever: at every epoch n the age
\* n - last_epoch_optimized of every target is at most
\* max(max_age + 1, number of targets), so every target is selected again
\* within that many epochs.
C24_AgeBound ==
  (method = "stddev" /\ InLoop) =>
    \A t \in DOMAIN wfs : AgeNow(t) <= Max(max_age + 1, len(wfs))

\* two targets, max_age = 2, after the warm-up: target 1 was noisier and
\* was selected twice in a row, target 0 has reached the age 3 = max_age + 1
C24_Witness ==
  /\ method = "stddev" /\ pc = "loop" /\ len(wfs) = 2 /\ max_age = 2
  /\ n_epoch > 2 * WarmupRounds /\ n_epoch < Budget
  /\ AgeNow(0) = 3 /\ AgeNow(1) = 1
  /\ index_next = 1 /\ chosen.age = 1

\* C26: in a stddev run with max_age < number of targets the starvation
\* guard fires at every epoch after the warm-up, so the whole sequence of
\* selections is the round_robin sequence n mod number of targets and the
\* E_std metrics have no influence on any selection.
C26_SmallMaxAgeIsRoundRobin ==
  (method = "stddev" /\ max_age < len(wfs)) =>
    /\ StepTaken => index_next = LastEpoch % len(wfs)
    /\ AdaptiveStepTaken => chosen.age > max_age
    /\ (pc = "loop" /\ n_epoch >= WarmupRounds * len(wfs)) =>
         \E t \in DOMAIN wfs : AgeNow(t) > max_age
    /\ InLoop => \A t \in DOMAIN wfs :
         wfs[t].n_opt_epochs = CeilDiv(n_epoch - t, len(wfs))

\* three targets, max_age = 2, an epoch after the warm-up: the target in
\* turn was selected although both others had a larger E_std
C26_Witness ==
  /\ AdaptiveStepTaken /\ len(wfs) = 3 /\ max_age = 2
  /\ index_next = LastEpoch % 3 /\ chosen.age = 3
  /\ OthersHigherStd(index_next)

(***************************************************************************)
(* replicate_across_devices                                                *)
(* data is a tuple of leaves, a leaf an array of LeafLen elements.  The    *)
(* pmap runs over all devices of all processes; device d of the "devices"  *)
(* axis is local device d % n_local of process d \div n_local, and every   *)
(* process passes its own copy of data: the root's data, or the root's     *)
(* data with every element shifted by the same amount.                     *)
(***************************************************************************)
LeafLen == 2
Elems == (-MaxElem)..MaxElem
\* (process count, local device count): 1, 2, 4 and 8 devices
DeviceLayouts == {<<1, 1>>, <<1, 2>>, <<2, 1>>, <<1, 4>>, <<2, 2>>,
                  <<1, 8>>, <<2, 4>>}

\* jnp.tile(x, [jax.local_device_count()] + [1] * x.ndim), for every leaf
tile(data, n_local) == [l \in 0..(n_local - 1) |-> data]

\* jnp.zeros_like, for every leaf
zeros_like(data) == [n \in DOMAIN data |-> [e \in DOMAIN data[n] |-> 0]]

tree_add(x, y) == [n \in DOMAIN x |-> [e \in DOMAIN x[n] |-> x[n][e] + y[n][e]]]

keep_every_device(x, axis_index) == x

\* jax.lax.cond(axis_index("devices") == 0, lambda y: y, zeros_like, x)
select_master(x, axis_index) == IF axis_index = 0 THEN x ELSE zeros_like(x)

\* jax.lax.psum(x, axis_name='devices'): the sum of the contributions of
\* devices 0..d
RECURSIVE psum(_, _)
psum(contrib, d) ==
  IF d = 0 THEN contrib[0] ELSE tree_add(psum(contrib, d - 1), contrib[d])

\* the view of every device after replicate_across_devices(data) has run on
\* every process; data_of[p] is the argument passed on process p
replicate_across_devices(data_of, n_proc, n_local) ==
  LET n_dev == n_proc * n_local
      tiled == [p \in 0..(n_proc - 1) |-> tile(data_of[p], n_local)]
      input == [d \in 0..(n_dev - 1) |-> tiled[d \div n_local][d % n_local]]
      contrib == [d \in 0..(n_dev - 1) |-> select_master(input[d], d)]
  IN [d \in 0..(n_dev - 1) |-> psum(contrib, n_dev - 1)]

DataTrees == UNION {[1..n -> [1..LeafLen -> Elems]] : n \in 1..MaxLeaves}

\* the data held by a process other than the root's
shifted(data, s) == [n \in DOMAIN data |-> [e \in DOMAIN data[n] |-> data[n][e] + s]]

InitRepl ==
  /\ method = "round_robin" /\ max_age = 1 /\ n_epochs = 0 /\ lead_is_dev = TRUE
  /\ wfs = <<>> /\ n_epoch = 0 /\ index_next = -1 /\ exc = NoExc
  /\ shared_params = <<>> /\ params = <<>> /\ opt_state = 0 /\ i = 0
  /\ log = <<>> /\ chosen = <<>>
  /\ ret = <<>>
  /\ pc = "replicate"
  /\ \E layout \in DeviceLayouts : \E root \in DataTrees :
       \E s \in (IF layout[1] = 1 THEN {0} ELSE Elems) :
          arg = [n_proc |-> layout[1], n_local |-> layout[2],
                 data |-> [p \in 0..(layout[1] - 1) |->
                             IF p = 0 THEN root ELSE shifted(root, s)]]

CallReplicate ==
  /\ pc = "replicate"
  /\ ret' = replicate_across_devices(arg.data, arg.n_proc, arg.n_local)
  /\ pc' = "replicated"
  /\ UNCHANGED <<cfgvars, runvars, wfs, n_epoch, index_next, exc, arg>>

NextRepl == CallReplicate

SpecRepl == InitRepl /\ [][NextRepl]_vars

\* C10: after replicate_across_devices(data) on D devices (1, 2, 4, 8) every
\* device view of every leaf equals, element by element, the data of the
\* root (device 0 of process 0): not D times it, not a mix of devices.
C10_ReplicationConsistency ==
  pc = "replicated" =>
    /\ DOMAIN ret = 0..(arg.n_proc * arg.n_local - 1)
    /\ \A d \in DOMAIN ret :
         /\ DOMAIN ret[d] = DOMAIN arg.data[0]
         /\ \A n \in DOMAIN ret[d] : \A e \in 1..LeafLen :
              ret[d][n][e] = arg.data[0][n][e]

\* eight devices on two processes whose data differ, root data not zero
C10_Witness ==
  /\ pc = "replicated" /\ arg.n_proc = 2 /\ arg.n_local = 4
  /\ Len(arg.data[0]) = 2
  /\ arg.data[0][1] = <<1, -1>> /\ arg.data[1][1] = <<2, 0>>
  /\ ret[7] = arg.data[0] /\ ret[0] = arg.data[0]

====
